---------------------------- MODULE Spec2Model ----------------------------
(***************************************************************************)
(* State-machine model of agent_stdio_multi_agent.py: the start-up         *)
(* credential check, the scope of the MCP client session (the `with`       *)
(* statement), the weather_assistant tool and the interactive loop with    *)
(* its two exception handlers.                                             *)
(*                                                                         *)
(* Python strings that the script inspects character by character (the     *)
(* user input, through str.lower) are sequences of one-character strings.  *)
(* Strings the script only formats are TLA+ strings.                       *)
(***************************************************************************)
EXTENDS Naturals, Sequences, FiniteSets

VARIABLES
    API_KEY,                 \* os.environ.get("API_KEY")
    SHUTTERSTOCK_API_TOKEN,  \* os.environ.get("SHUTTERSTOCK_API_TOKEN")
    pc,                      \* the statement the script is at
    constructed,             \* stdio_mcp_client, conversation_manager, bedrock_model exist
    session,                 \* the MCP client session: "closed" or "open"
    opens,                   \* how many times the session was opened
    teardowns,               \* how many times the session was torn down
    tools,                   \* result of list_tools_sync(), NoTools before
    orchestrator_agent,      \* TRUE once the Agent of lines 116-126 exists
    user_input,              \* the line last returned by input()
    invoked_with,            \* the argument of the last orchestrator_agent(...) call
    response,                \* the value last returned by orchestrator_agent(...)
    tool_result,             \* what the last tool call handed back to the orchestrator
    wa_call,                 \* the last weather_assistant call: query, run outcome, result
    rounds,                  \* tool rounds of the current turn (saturating)
    printed,                 \* the last line written by print()
    exc,                     \* the exception in flight or that ended the script
    raised_in,               \* where exc was raised
    caught,                  \* the exception the loop's handlers caught last
    exit_code                \* the process exit status, Running before the end

vars == <<API_KEY, SHUTTERSTOCK_API_TOKEN, pc, constructed, session, opens,
          teardowns, tools, orchestrator_agent, user_input, invoked_with,
          response, tool_result, wa_call, rounds, printed, exc, raised_in,
          caught, exit_code>>

---------------------------------------------------------------------------
(* Bounds of the model *)

\* the tool-round counter of a turn saturates here; the rounds themselves go on
MaxRounds == 2

---------------------------------------------------------------------------
(* Values *)

\* Python's None, as returned by os.environ.get for an unset variable
None == "None"

\* the values the two environment variables are drawn from
EnvValues == {None, "", "key"}

\* a check for an unset variable only (`is None`), letting "" through
Truthy_NotNoneOnly(v) == v # None

\* Python truthiness of an Optional[str]: None and "" are falsy
Truthy(v) == v # None /\ v # ""

NoException == [type |-> "NoException", msg |-> ""]

ValueError(m) == [type |-> "ValueError", msg |-> m]

KeyboardInterrupt == [type |-> "KeyboardInterrupt", msg |-> ""]

EOFError == [type |-> "EOFError", msg |-> "EOF when reading a line"]

\* the subclasses of Exception the model draws failures from
ExceptionTypes == {"ValueError", "EOFError", "ConnectionError", "JSONDecodeError",
                   "ModelError", "ToolError"}

\* isinstance(e, Exception)
IsException(e) == e.type \in ExceptionTypes

\* isinstance(e, KeyboardInterrupt)
IsKeyboardInterrupt(e) == e.type = "KeyboardInterrupt"

\* exit_code while the process has not ended
Running == 2

---------------------------------------------------------------------------
(* User input and str.lower *)

\* what user_input holds before the first input() returns
NoInput == <<"<none>">>

\* str.lower on one character, over the alphabet the inputs are written in
LowerChar(c) ==
    CASE c = "E" -> "e"
      [] c = "X" -> "x"
      [] c = "I" -> "i"
      [] c = "T" -> "t"
      [] c = "Q" -> "q"
      [] c = "U" -> "u"
      [] c = "H" -> "h"
      [] OTHER -> c

\* str.lower
lower(s) == [i \in DOMAIN s |-> LowerChar(s[i])]

\* the two literals user_input.lower() is compared with (line 141)
ExitLiteral == <<"e", "x", "i", "t">>

QuitLiteral == <<"q", "u", "i", "t">>

\* the comparison without .lower()
IsExitCommand_CaseSensitive(s) == s = ExitLiteral \/ s = QuitLiteral

\* user_input.lower() == "exit" or user_input.lower() == "quit"
IsExitCommand(s) == lower(s) = ExitLiteral \/ lower(s) = QuitLiteral

\* the lines input() returns in the model
Inputs == { <<"e", "x", "i", "t">>, <<"E", "X", "I", "T">>, <<"E", "x", "i", "t">>,
            <<"q", "u", "i", "t">>, <<"Q", "U", "I", "T">>, <<"q", "U", "i", "T">>,
            <<"e", "x", "i", "t", " ">>, <<" ", "q", "u", "i", "t">>,
            <<"e", "x", "i">>, <<"h", "i">>, <<"H", "I">>, <<>> }

---------------------------------------------------------------------------
(* print() *)

NothingPrinted == [colour |-> "NONE", text |-> ""]

\* lines 133-134, the banner
Banner == [colour |-> "BLUE", text |-> "Type your request (or 'exit' to quit):"]

\* line 142
Goodbye == [colour |-> "BLUE", text |-> "Goodbye!"]

\* line 148
Interrupted == [colour |-> "RED", text |-> "Execution interrupted. Exiting..."]

\* line 150
ErrorOccurred(e) == [colour |-> "RED", text |-> "An error occurred: " \o e.msg]

---------------------------------------------------------------------------
(* weather_assistant, lines 79-101 *)

\* how the run weather_agent(query) of line 98 can end: with a response, with an
\* exception of some subclass of Exception, or with a KeyboardInterrupt
RunOutcomes ==
    { [kind |-> "ok", value |-> "Cloudy with a chance of showers", exc |-> NoException],
      [kind |-> "ok", value |-> "", exc |-> NoException],
      [kind |-> "raise", value |-> "",
       exc |-> [type |-> "ConnectionError", msg |-> "Connection refused"]],
      [kind |-> "raise", value |-> "",
       exc |-> [type |-> "JSONDecodeError", msg |-> "Expecting value"]],
      [kind |-> "raise", value |-> "", exc |-> [type |-> "ModelError", msg |-> ""]],
      [kind |-> "raise", value |-> "", exc |-> KeyboardInterrupt] }

NoOutcome == [kind |-> "none", value |-> "", exc |-> NoException]

\* the queries the orchestrator passes to the tool
Queries == {"Seattle, WA", ""}

\* a returned string
Returned(v) == [raised |-> FALSE, value |-> v, exc |-> NoException]

\* an exception leaving the function
Raised(e) == [raised |-> TRUE, value |-> "", exc |-> e]

\* wa_call before the tool was ever called
NoCall == [query |-> "", outcome |-> NoOutcome, result |-> Returned("")]

\* the function with `except ConnectionError` in place of `except Exception`
weather_assistant_CatchesConnectionErrorOnly(query, outcome) ==
    IF outcome.kind = "ok"
    THEN Returned(outcome.value)
    ELSE IF outcome.exc.type = "ConnectionError"
         THEN Returned("Error in weather assistant: " \o outcome.exc.msg)
         ELSE Raised(outcome.exc)

\* the body of the function: try / return str(response) / except Exception
weather_assistant(query, outcome) ==
    IF outcome.kind = "ok"
    THEN Returned(outcome.value)
    ELSE IF IsException(outcome.exc)
         THEN Returned("Error in weather assistant: " \o outcome.exc.msg)
         ELSE Raised(outcome.exc)
---------------------------------------------------------------------------
(* Start-up, lines 21-55 *)

Init ==
    /\ API_KEY \in EnvValues
    /\ SHUTTERSTOCK_API_TOKEN \in EnvValues
    /\ pc = "check_api_key"
    /\ constructed = FALSE
    /\ session = "closed"
    /\ opens = 0
    /\ teardowns = 0
    /\ tools = {}
    /\ orchestrator_agent = FALSE
    /\ user_input = NoInput
    /\ invoked_with = NoInput
    /\ response = ""
    /\ tool_result = ""
    /\ wa_call = NoCall
    /\ rounds = 0
    /\ printed = NothingPrinted
    /\ exc = NoException
    /\ raised_in = "nowhere"
    /\ caught = NoException
    /\ exit_code = Running

\* an exception nobody catches, raised outside the `with` block: the script ends
Uncaught(e, where) ==
    /\ exc' = e
    /\ raised_in' = where
    /\ pc' = "done"
    /\ exit_code' = 1

\* lines 23-24
CheckApiKey ==
    /\ pc = "check_api_key"
    /\ IF Truthy(API_KEY)
       THEN /\ pc' = "check_token"
            /\ UNCHANGED <<exc, raised_in, exit_code>>
       ELSE Uncaught(ValueError("API_KEY environment variable is not set."), "startup")
    /\ UNCHANGED <<API_KEY, SHUTTERSTOCK_API_TOKEN, constructed, session, opens,
                   teardowns, tools, orchestrator_agent, user_input, invoked_with,
                   response, tool_result, wa_call, rounds, printed, caught>>

\* lines 25-26
CheckShutterstockApiToken ==
    /\ pc = "check_token"
    /\ IF Truthy(SHUTTERSTOCK_API_TOKEN)
       THEN /\ pc' = "construct"
            /\ UNCHANGED <<exc, raised_in, exit_code>>
       ELSE Uncaught(ValueError("SHUTTERSTOCK_API_TOKEN environment variable is not set."),
                     "startup")
    /\ UNCHANGED <<API_KEY, SHUTTERSTOCK_API_TOKEN, constructed, session, opens,
                   teardowns, tools, orchestrator_agent, user_input, invoked_with,
                   response, tool_result, wa_call, rounds, printed, caught>>

\* lines 29-55: the MCP client (not yet started), the conversation manager and
\* the Bedrock model are constructed
Construct ==
    /\ pc = "construct"
    /\ constructed' = TRUE
    /\ pc' = "with_enter"
    /\ UNCHANGED <<API_KEY, SHUTTERSTOCK_API_TOKEN, session, opens, teardowns, tools,
                   orchestrator_agent, user_input, invoked_with, response,
                   tool_result, wa_call, rounds, printed, exc, raised_in,
                   exit_code, caught>>

---------------------------------------------------------------------------
(* The session scope, lines 104-135 *)

\* the tool lists the MCP server may answer with
ToolLists == { {}, {"search_shutterstock"}, {"search_shutterstock", "echo"} }

\* the exceptions list_tools_sync() and the rounds of a turn may raise
Failures == { [type |-> "ConnectionError", msg |-> "Connection refused"],
              [type |-> "ToolError", msg |-> "tool failed"],
              [type |-> "ModelError", msg |-> "model backend failed"],
              [type |-> "ModelError", msg |-> ""],
              KeyboardInterrupt }

\* line 104, __enter__ returns: the session is open
WithEnter ==
    /\ pc = "with_enter"
    /\ session' = "open"
    /\ opens' = opens + 1
    /\ pc' = "list_tools"
    /\ UNCHANGED <<API_KEY, SHUTTERSTOCK_API_TOKEN, constructed, teardowns, tools,
                   orchestrator_agent, user_input, invoked_with, response,
                   tool_result, wa_call, rounds, printed, exc, raised_in,
                   exit_code, caught>>

\* line 104, __enter__ raises: no session was opened and the block is not entered
WithEnterRaises ==
    /\ pc = "with_enter"
    /\ \E e \in Failures : Uncaught(e, "with_enter")
    /\ UNCHANGED <<API_KEY, SHUTTERSTOCK_API_TOKEN, constructed, session, opens,
                   teardowns, tools, orchestrator_agent, user_input, invoked_with,
                   response, tool_result, wa_call, rounds, printed, caught>>

\* line 106 returns
ListTools ==
    /\ pc = "list_tools"
    /\ \E ts \in ToolLists : tools' = ts
    /\ pc' = "create_agent"
    /\ UNCHANGED <<API_KEY, SHUTTERSTOCK_API_TOKEN, constructed, session, opens,
                   teardowns, orchestrator_agent, user_input, invoked_with, response,
                   tool_result, wa_call, rounds, printed, exc, raised_in,
                   exit_code, caught>>

\* line 106 raises: nothing in the block catches it, the block is left
ListToolsRaises ==
    /\ pc = "list_tools"
    /\ \E e \in Failures : exc' = e
    /\ raised_in' = "list_tools"
    /\ pc' = "with_exit"
    /\ UNCHANGED <<API_KEY, SHUTTERSTOCK_API_TOKEN, constructed, session, opens,
                   teardowns, tools, orchestrator_agent, user_input, invoked_with,
                   response, tool_result, wa_call, rounds, printed, exit_code, caught>>

\* lines 116-134: the orchestrator is built over the listed and the local tools,
\* the banner is printed
CreateAgent ==
    /\ pc = "create_agent"
    /\ orchestrator_agent' = TRUE
    /\ printed' = Banner
    /\ pc' = "input"
    /\ UNCHANGED <<API_KEY, SHUTTERSTOCK_API_TOKEN, constructed, session, opens,
                   teardowns, tools, user_input, invoked_with, response, tool_result,
                   wa_call, rounds, exc, raised_in, exit_code, caught>>

\* a close() as the last statement of the block in place of the `with`
\* statement: reached only when nothing is in flight
WithExit_SkipsOnException ==
    /\ pc = "with_exit"
    /\ IF exc = NoException
       THEN /\ session' = "closed"
            /\ teardowns' = teardowns + 1
       ELSE UNCHANGED <<session, teardowns>>
    /\ pc' = "done"
    /\ exit_code' = IF exc = NoException THEN 0 ELSE 1
    /\ UNCHANGED <<API_KEY, SHUTTERSTOCK_API_TOKEN, constructed, opens, tools,
                   orchestrator_agent, user_input, invoked_with, response,
                   tool_result, wa_call, rounds, printed, exc, raised_in, caught>>

\* the end of the `with` block, on every way out of it: __exit__ tears the
\* session down; an exception in flight then ends the script
WithExit ==
    /\ pc = "with_exit"
    /\ session' = "closed"
    /\ teardowns' = teardowns + 1
    /\ pc' = "done"
    /\ exit_code' = IF exc = NoException THEN 0 ELSE 1
    /\ UNCHANGED <<API_KEY, SHUTTERSTOCK_API_TOKEN, constructed, opens, tools,
                   orchestrator_agent, user_input, invoked_with, response,
                   tool_result, wa_call, rounds, printed, exc, raised_in, caught>>
---------------------------------------------------------------------------
(* The interactive loop, lines 137-150 *)

\* the answers the model backend may end a turn with
Answers == {"Sunny and the sky is clear", "Here are three images"}

\* the tools of the orchestrator besides weather_assistant (lines 118-123)
OtherTools == tools \cup {"http_request", "shell"}

\* one more tool round in the current turn
NextRound(n) == IF n < MaxRounds THEN n + 1 ELSE n

\* the loop with the `with` statement inside it: a session per turn
ReadInput_ReopensSession ==
    /\ pc = "input"
    /\ \E s \in Inputs :
          /\ user_input' = s
          /\ IF IsExitCommand(s)
             THEN /\ printed' = Goodbye
                  /\ pc' = "with_exit"
                  /\ UNCHANGED <<invoked_with, rounds, opens>>
             ELSE /\ invoked_with' = s
                  /\ rounds' = 0
                  /\ opens' = opens + 1
                  /\ pc' = "turn"
                  /\ UNCHANGED printed
    /\ UNCHANGED <<API_KEY, SHUTTERSTOCK_API_TOKEN, constructed, session,
                   teardowns, tools, orchestrator_agent, response, tool_result,
                   wa_call, exc, raised_in, caught, exit_code>>

\* line 139 returns a line; lines 141-143 leave the loop on exit/quit, line 146
\* otherwise calls the orchestrator with the line
ReadInput ==
    /\ pc = "input"
    /\ \E s \in Inputs :
          /\ user_input' = s
          /\ IF IsExitCommand(s)
             THEN /\ printed' = Goodbye
                  /\ pc' = "with_exit"
                  /\ UNCHANGED <<invoked_with, rounds>>
             ELSE /\ invoked_with' = s
                  /\ rounds' = 0
                  /\ pc' = "turn"
                  /\ UNCHANGED printed
    /\ UNCHANGED <<API_KEY, SHUTTERSTOCK_API_TOKEN, constructed, session, opens,
                   teardowns, tools, orchestrator_agent, response, tool_result,
                   wa_call, exc, raised_in, caught, exit_code>>

\* input() outside the try: what it raises leaves the loop and the block
InputRaises_OutsideTry ==
    /\ pc = "input"
    /\ \E e \in {EOFError, KeyboardInterrupt} : exc' = e
    /\ raised_in' = "input"
    /\ pc' = "with_exit"
    /\ UNCHANGED <<API_KEY, SHUTTERSTOCK_API_TOKEN, constructed, session, opens,
                   teardowns, tools, orchestrator_agent, user_input, invoked_with,
                   response, tool_result, wa_call, rounds, printed, caught,
                   exit_code>>

\* line 139 raises: end of input, or Ctrl-C while waiting
InputRaises ==
    /\ pc = "input"
    /\ \E e \in {EOFError, KeyboardInterrupt} : exc' = e
    /\ raised_in' = "input"
    /\ pc' = "handler"
    /\ UNCHANGED <<API_KEY, SHUTTERSTOCK_API_TOKEN, constructed, session, opens,
                   teardowns, tools, orchestrator_agent, user_input, invoked_with,
                   response, tool_result, wa_call, rounds, printed, caught,
                   exit_code>>

\* line 146, the model backend asks for weather_assistant: the tool runs and
\* its string goes back to the model; what it raises leaves the call of line 146
ToolRoundWeather ==
    /\ pc = "turn"
    /\ \E q \in Queries, o \in RunOutcomes :
          LET r == weather_assistant(q, o) IN
          /\ wa_call' = [query |-> q, outcome |-> o, result |-> r]
          /\ IF r.raised
             THEN /\ exc' = r.exc
                  /\ raised_in' = "turn"
                  /\ pc' = "handler"
                  /\ UNCHANGED <<tool_result, rounds>>
             ELSE /\ tool_result' = r.value
                  /\ rounds' = NextRound(rounds)
                  /\ UNCHANGED <<exc, raised_in, pc>>
    /\ UNCHANGED <<API_KEY, SHUTTERSTOCK_API_TOKEN, constructed, session, opens,
                   teardowns, tools, orchestrator_agent, user_input, invoked_with,
                   response, printed, caught, exit_code>>

\* line 146, the model backend asks for one of the other tools
ToolRoundOther ==
    /\ pc = "turn"
    /\ \E name \in OtherTools : tool_result' = "result of " \o name
    /\ rounds' = NextRound(rounds)
    /\ UNCHANGED <<API_KEY, SHUTTERSTOCK_API_TOKEN, pc, constructed, session, opens,
                   teardowns, tools, orchestrator_agent, user_input, invoked_with,
                   response, wa_call, printed, exc, raised_in, caught, exit_code>>

\* line 146 returns: the model backend answered with text
ModelAnswers ==
    /\ pc = "turn"
    /\ \E text \in Answers : response' = text
    /\ pc' = "input"
    /\ UNCHANGED <<API_KEY, SHUTTERSTOCK_API_TOKEN, constructed, session, opens,
                   teardowns, tools, orchestrator_agent, user_input, invoked_with,
                   tool_result, wa_call, rounds, printed, exc, raised_in, caught,
                   exit_code>>

\* line 146 raises: a failure of the model backend or of a tool, or Ctrl-C
TurnRaises ==
    /\ pc = "turn"
    /\ \E e \in Failures : exc' = e
    /\ raised_in' = "turn"
    /\ pc' = "handler"
    /\ UNCHANGED <<API_KEY, SHUTTERSTOCK_API_TOKEN, constructed, session, opens,
                   teardowns, tools, orchestrator_agent, user_input, invoked_with,
                   response, tool_result, wa_call, rounds, printed, caught,
                   exit_code>>

\* the loop without its `except Exception` clause: an error leaves the loop
LoopHandler_ErrorLeaves ==
    /\ pc = "handler"
    /\ IF IsKeyboardInterrupt(exc)
       THEN /\ printed' = Interrupted
            /\ caught' = exc
            /\ exc' = NoException
            /\ pc' = "with_exit"
       ELSE /\ pc' = "with_exit"
            /\ UNCHANGED <<printed, caught, exc>>
    /\ UNCHANGED <<API_KEY, SHUTTERSTOCK_API_TOKEN, constructed, session, opens,
                   teardowns, tools, orchestrator_agent, user_input, invoked_with,
                   response, tool_result, wa_call, rounds, raised_in, exit_code>>

\* the KeyboardInterrupt clause with `continue` for an interrupt of a turn
LoopHandler_TurnInterruptContinues ==
    /\ pc = "handler"
    /\ IF IsKeyboardInterrupt(exc)
       THEN /\ printed' = Interrupted
            /\ caught' = exc
            /\ exc' = NoException
            /\ pc' = IF raised_in = "turn" THEN "input" ELSE "with_exit"
       ELSE IF IsException(exc)
            THEN /\ printed' = ErrorOccurred(exc)
                 /\ caught' = exc
                 /\ exc' = NoException
                 /\ pc' = "input"
            ELSE /\ pc' = "with_exit"
                 /\ UNCHANGED <<printed, caught, exc>>
    /\ UNCHANGED <<API_KEY, SHUTTERSTOCK_API_TOKEN, constructed, session, opens,
                   teardowns, tools, orchestrator_agent, user_input, invoked_with,
                   response, tool_result, wa_call, rounds, raised_in, exit_code>>

\* lines 147-150: the except clauses of the loop's try, in their order; what
\* neither clause matches leaves the loop and the block
LoopHandler ==
    /\ pc = "handler"
    /\ IF IsKeyboardInterrupt(exc)
       THEN /\ printed' = Interrupted
            /\ caught' = exc
            /\ exc' = NoException
            /\ pc' = "with_exit"
       ELSE IF IsException(exc)
            THEN /\ printed' = ErrorOccurred(exc)
                 /\ caught' = exc
                 /\ exc' = NoException
                 /\ pc' = "input"
            ELSE /\ pc' = "with_exit"
                 /\ UNCHANGED <<printed, caught, exc>>
    /\ UNCHANGED <<API_KEY, SHUTTERSTOCK_API_TOKEN, constructed, session, opens,
                   teardowns, tools, orchestrator_agent, user_input, invoked_with,
                   response, tool_result, wa_call, rounds, raised_in, exit_code>>

---------------------------------------------------------------------------
(* Specifications *)

Next ==
    \/ CheckApiKey
    \/ CheckShutterstockApiToken
    \/ Construct
    \/ WithEnter
    \/ WithEnterRaises
    \/ ListTools
    \/ ListToolsRaises
    \/ CreateAgent
    \/ ReadInput
    \/ InputRaises
    \/ ToolRoundWeather
    \/ ToolRoundOther
    \/ ModelAnswers
    \/ TurnRaises
    \/ LoopHandler
    \/ WithExit

Spec == Init /\ [][Next]_vars

\* the process and its collaborators do not halt: while a step is possible,
\* some step is taken
FairSpec == Init /\ [][Next]_vars /\ WF_vars(Next)
---------------------------------------------------------------------------
(* Properties *)

\* C1: the session is torn down exactly once per opened session on every way
\* out of the `with` block (exit/quit, an exception nothing catches, a user
\* interrupt): it is never torn down more often than opened, it is open exactly
\* between its opening and its teardown, and the script never ends with it open.
C1_TeardownExactlyOnce ==
    /\ teardowns <= opens
    /\ (session = "open") = (opens = teardowns + 1)
    /\ (session = "closed") = (opens = teardowns)
    /\ pc = "done" => (session = "closed" /\ teardowns = opens)

\* C1, reached: list_tools_sync() failed after the session was opened, and the
\* script ended with the one session torn down once
C1_Witness ==
    /\ pc = "done"
    /\ raised_in = "list_tools"
    /\ exc.type = "ConnectionError"
    /\ opens = 1
    /\ teardowns = 1
    /\ session = "closed"

\* C2: an error raised by the orchestrator call while it resolves an input
\* (tool failure, model backend failure) is caught at the turn boundary: the
\* handler prints "An error occurred: <message>", the loop is back at its
\* prompt, the session is still open and the process has not ended.
C2_TurnErrorCaught ==
    [][ (/\ pc = "handler"
         /\ raised_in = "turn"
         /\ exc.type \in {"ConnectionError", "ToolError", "ModelError"})
        => (/\ pc' = "input"
            /\ printed' = [colour |-> "RED", text |-> "An error occurred: " \o exc.msg]
            /\ exit_code' = Running
            /\ session' = "open"
            /\ exc' = NoException) ]_vars

\* C2, reached: a model backend failure of a turn was reported and the loop
\* prompts again
C2_Witness ==
    /\ pc = "input"
    /\ raised_in = "turn"
    /\ caught = [type |-> "ModelError", msg |-> "model backend failed"]
    /\ printed.text = "An error occurred: model backend failed"
    /\ exit_code = Running

\* C3: weather_assistant never raises on a fault of its run: whether the run
\* returns or fails with an exception (network failure, malformed response,
\* backend error), the call returns a string, the response on success and
\* "Error in weather assistant: <message>" on failure.
C3_WeatherAssistantReturnsString ==
    LET o == wa_call.outcome
        r == wa_call.result
    IN  (o.kind = "ok" \/ (o.kind = "raise" /\ o.exc.type # "KeyboardInterrupt"))
        => /\ r.raised = FALSE
           /\ r.value \in STRING
           /\ o.kind = "ok" => r.value = o.value
           /\ o.kind = "raise" => r.value = "Error in weather assistant: " \o o.exc.msg

\* C3, reached: the run failed on a malformed response and the orchestrator got
\* the error string as the tool's result
C3_Witness ==
    /\ pc = "turn"
    /\ wa_call.outcome.kind = "raise"
    /\ wa_call.outcome.exc.type = "JSONDecodeError"
    /\ wa_call.result.raised = FALSE
    /\ tool_result = "Error in weather assistant: Expecting value"

\* C4: with API_KEY or SHUTTERSTOCK_API_TOKEN absent or empty, the script
\* fails with a ValueError before anything is constructed: no session is ever
\* opened, no tool listed, no agent built, nothing printed, no prompt shown.
C4_MissingCredentialFailsFast ==
    (API_KEY \in {None, ""} \/ SHUTTERSTOCK_API_TOKEN \in {None, ""})
    => /\ pc \in {"check_api_key", "check_token", "done"}
       /\ constructed = FALSE
       /\ session = "closed"
       /\ opens = 0
       /\ tools = {}
       /\ orchestrator_agent = FALSE
       /\ printed = NothingPrinted
       /\ user_input = NoInput
       /\ pc = "done" => (exc.type = "ValueError" /\ exit_code = 1)

\* C4, reached: API_KEY is set, SHUTTERSTOCK_API_TOKEN is empty, and the script
\* ended on the second check
C4_Witness ==
    /\ pc = "done"
    /\ API_KEY = "key"
    /\ SHUTTERSTOCK_API_TOKEN = ""
    /\ exc = [type |-> "ValueError",
              msg |-> "SHUTTERSTOCK_API_TOKEN environment variable is not set."]
    /\ exit_code = 1

\* C5 as stated: an interrupt caught while waiting for input leaves the loop,
\* an interrupt caught during a turn aborts the turn only and the loop goes on.
C5_TurnInterruptAbortsTurnOnly ==
    caught.type = "KeyboardInterrupt"
    => /\ raised_in = "input" => (pc \in {"with_exit", "done"} /\ printed = Interrupted)
       /\ raised_in = "turn" => pc \in {"input", "turn", "handler"}

\* C5 as amended: an interrupt caught in the loop, while waiting for input or
\* during a turn, leaves the loop gracefully: the interrupt message is printed,
\* nothing stays in flight, and the script ends with the session torn down and
\* exit code 0.
C5_InterruptLeavesLoop ==
    caught.type = "KeyboardInterrupt"
    => /\ raised_in \in {"input", "turn"}
       /\ pc \in {"with_exit", "done"}
       /\ printed = Interrupted
       /\ exc = NoException
       /\ pc = "done" => (exit_code = 0 /\ session = "closed" /\ teardowns = 1)

\* C5, reached: a turn was interrupted and the script has ended
C5_Witness ==
    /\ caught.type = "KeyboardInterrupt"
    /\ raised_in = "turn"
    /\ invoked_with = <<"h", "i">>
    /\ pc = "done"
    /\ exit_code = 0

\* C6: an input that is "exit" or "quit" in any letter case ends the loop: the
\* step that reads it prints the goodbye and leaves the loop without calling
\* the orchestrator, the orchestrator is never called with such an input, and
\* after the goodbye there is no prompt and the script ends with the session
\* torn down and exit code 0.
C6_ExitCommandEndsLoop ==
    [][ LET Reserved(s) ==
                /\ Len(s) = 4
                /\ \/ /\ s[1] \in {"e", "E"} /\ s[2] \in {"x", "X"}
                      /\ s[3] \in {"i", "I"} /\ s[4] \in {"t", "T"}
                   \/ /\ s[1] \in {"q", "Q"} /\ s[2] \in {"u", "U"}
                      /\ s[3] \in {"i", "I"} /\ s[4] \in {"t", "T"}
        IN  /\ (pc = "input" /\ pc' \in {"turn", "with_exit"} /\ Reserved(user_input'))
               => (/\ pc' = "with_exit"
                   /\ printed' = Goodbye
                   /\ invoked_with' = invoked_with
                   /\ response' = response)
            /\ ~Reserved(invoked_with')
            /\ printed' = Goodbye
               => /\ pc' \in {"with_exit", "done"}
                  /\ pc' = "done" => (/\ exit_code' = 0
                                      /\ session' = "closed"
                                      /\ teardowns' = 1) ]_vars

\* C6, reached: "qUiT" was read and the script has ended normally
C6_Witness ==
    /\ pc = "done"
    /\ user_input = <<"q", "U", "i", "T">>
    /\ printed = Goodbye
    /\ exit_code = 0
    /\ session = "closed"

\* C7: the session is opened at most once per run, and tool listing, the
\* building of the agent, every prompt and every turn happen while that one
\* session is open: after its opening and before its teardown.
C7_OneSessionForAllTurns ==
    /\ opens <= 1
    /\ pc \in {"list_tools", "create_agent", "input", "turn", "handler"}
       => (session = "open" /\ opens = 1 /\ teardowns = 0)
    /\ (tools # {} \/ orchestrator_agent \/ invoked_with # NoInput) => opens = 1

\* C7, reached: a second turn, with a call of a tool of the MCP server, in the
\* session opened once
C7_Witness ==
    /\ pc = "turn"
    /\ response # ""
    /\ tool_result = "result of search_shutterstock"
    /\ session = "open"
    /\ opens = 1

\* C9: every turn ends: once the orchestrator is called with an input, the
\* call returns or raises.
C9_TurnTerminates == (pc = "turn") ~> (pc # "turn")

\* C10: the loop is left only by the step that reads exit/quit or by the
\* handler of a KeyboardInterrupt; any other exception of an iteration, raised
\* by input() or by the orchestrator call, is printed and the loop prompts again.
C10_LoopLeftOnlyByExitOrInterrupt ==
    [][ LET InLoop(p) == p \in {"input", "turn", "handler"}
            Reserved(s) == lower(s) \in {<<"e", "x", "i", "t">>, <<"q", "u", "i", "t">>}
        IN  /\ (InLoop(pc) /\ ~InLoop(pc'))
               => \/ pc = "input" /\ Reserved(user_input') /\ printed' = Goodbye
                  \/ pc = "handler" /\ exc.type = "KeyboardInterrupt"
            /\ (pc = "handler" /\ exc.type # "KeyboardInterrupt")
               => (/\ pc' = "input"
                   /\ caught' = exc
                   /\ printed'.text = "An error occurred: " \o exc.msg) ]_vars

\* C10, reached: input() raised EOFError, the error was printed and the loop is
\* at its prompt again
C10_Witness ==
    /\ pc = "input"
    /\ raised_in = "input"
    /\ caught = EOFError
    /\ printed.text = "An error occurred: EOF when reading a line"
    /\ exit_code = Running

====
